---- MODULE Spec2Model ----
(***************************************************************************)
(* Model of the Discord administration bridge in src/main.py: the          *)
(* persistent whitelist, the two authorization gates in front of the slash *)
(* commands, and the command handlers with the remote calls they make.     *)
(*                                                                         *)
(* Every command invocation is a task of the single-threaded event loop.   *)
(* A task is suspended only at an await: after the gate let it through     *)
(* (pc "admitted", whitelist command), at the deferred initial response    *)
(* (pc "deferred", protected commands) and while its reply is being sent   *)
(* (pc "reply").  The calls made through the requests library block the    *)
(* event loop, so no other task steps while a handler is between two of    *)
(* them (pc "listing" and "fetching" of the ban-list enumeration).         *)
(***************************************************************************)
EXTENDS Integers, Sequences, FiniteSets, TLC

VARIABLES
    whitelisted_users,  \* main.py:62, the in-memory whitelist (a list of ints)
    whitelist_file,     \* whitelist.json on disk: [exists, content]
    task,               \* the command invocations in flight, one record per slot
    store,              \* the remote key-value store of ban records, by entry key
    frame               \* the locals of the running get_datastore_ban_list()

vars == <<whitelisted_users, whitelist_file, task, store, frame>>

-----------------------------------------------------------------------------
(* Bounds and configuration                                                *)

MaxUserId == 3          \* Discord user ids are 1..MaxUserId
MaxRobloxId == 2        \* Roblox user ids are 1..MaxRobloxId
MaxPages == 2           \* the key listing ends within MaxPages pages
MaxListed == 2          \* and lists at most MaxListed keys in all
BOT_OWNER_ID == 1
EMBED_COLOR_SUCCESS == 65280
EMBED_COLOR_ERROR == 16711680
EMBED_COLOR_INFO == 49151

UserIds == 1..MaxUserId

-----------------------------------------------------------------------------
(* Text: a Python str is a sequence of one-character strings               *)

Digits == <<"0", "1", "2", "3", "4", "5", "6", "7", "8", "9">>

DecimalChars == {Digits[i] : i \in 1..10}

\* Characters for which str.isdigit() is true although int() rejects them
\* (superscript two and its like).
SuperscriptChars == {"sup2"}

None == <<"None">>

DigitValue(c) == (CHOOSE i \in 1..10 : Digits[i] = c) - 1

RECURSIVE str(_)
str(n) == IF n < 10 THEN <<Digits[n + 1]>> ELSE str(n \div 10) \o <<Digits[(n % 10) + 1]>>

isdigit(s) == /\ s # None
              /\ Len(s) > 0
              /\ \A i \in 1..Len(s) : s[i] \in DecimalChars \cup SuperscriptChars

\* int(s) raises ValueError unless every character is a decimal digit.
int_raises(s) == \E i \in 1..Len(s) : s[i] \notin DecimalChars

RECURSIVE int(_)
int(s) == IF Len(s) = 0 THEN 0
          ELSE 10 * int(SubSeq(s, 1, Len(s) - 1)) + DigitValue(s[Len(s)])

In(x, list) == \E i \in 1..Len(list) : list[i] = x

\* list.remove(x): drops the first occurrence only.
FirstIndex(x, list) == CHOOSE i \in 1..Len(list) : list[i] = x /\ \A j \in 1..(i - 1) : list[j] # x

list_remove(list, x) == SubSeq(list, 1, FirstIndex(x, list) - 1) \o SubSeq(list, FirstIndex(x, list) + 1, Len(list))

list_append(list, x) == Append(list, x)

-----------------------------------------------------------------------------
(* The whitelist file: json.dump / json.loads of a list of ints            *)

RECURSIVE json_items(_)
json_items(list) ==
    IF Len(list) = 0 THEN <<>>
    ELSE IF Len(list) = 1 THEN str(list[1])
    ELSE str(list[1]) \o <<",">> \o json_items(Tail(list))

json_dumps(list) == <<"[">> \o json_items(list) \o <<"]">>

\* The longest prefix of s made of decimal digits.
RECURSIVE digit_prefix_len(_)
digit_prefix_len(s) ==
    IF Len(s) > 0 /\ s[1] \in DecimalChars THEN 1 + digit_prefix_len(Tail(s)) ELSE 0

\* Parses "n,n,...,n"; ok is FALSE on anything else.
RECURSIVE parse_items(_)
parse_items(s) ==
    LET n == digit_prefix_len(s)
        rest == SubSeq(s, n + 1, Len(s))
    IN  IF n = 0 THEN [ok |-> FALSE, value |-> <<>>]
        ELSE IF Len(rest) = 0 THEN [ok |-> TRUE, value |-> <<int(SubSeq(s, 1, n))>>]
        ELSE IF rest[1] # "," THEN [ok |-> FALSE, value |-> <<>>]
        ELSE LET more == parse_items(Tail(rest))
             IN  [ok |-> more.ok, value |-> <<int(SubSeq(s, 1, n))>> \o more.value]

json_loads(s) ==
    IF Len(s) < 2 \/ s[1] # "[" \/ s[Len(s)] # "]" THEN [ok |-> FALSE, value |-> <<>>]
    ELSE IF Len(s) = 2 THEN [ok |-> TRUE, value |-> <<>>]
    ELSE parse_items(SubSeq(s, 2, Len(s) - 1))

NoFile == [exists |-> FALSE, content |-> <<>>]

load_whitelist(file) ==
    IF ~file.exists THEN <<>>
    ELSE IF Len(file.content) = 0 THEN <<>>
    ELSE IF json_loads(file.content).ok THEN json_loads(file.content).value
    ELSE <<>>

\* save_whitelist with the file opened for appending instead of writing.
save_whitelist_append(whitelist_data, file, disk) ==
    [exists |-> TRUE, content |-> file.content \o json_dumps(whitelist_data)]

\* What the disk can do with one save: the write goes through; open() fails
\* and the file stays as it was; or open() truncated the file and the write
\* failed on the way (nothing written, or everything but the last character).
\* The IOError is printed and swallowed in the last two cases.
DiskOutcomes == {"written", "open_failed", "truncated", "cut_short"}

save_whitelist(whitelist_data, file, disk) ==
    LET text == json_dumps(whitelist_data)
    IN  CASE disk = "written" -> [exists |-> TRUE, content |-> text]
          [] disk = "open_failed" -> file
          [] disk = "truncated" -> [exists |-> TRUE, content |-> <<>>]
          [] disk = "cut_short" -> [exists |-> TRUE, content |-> SubSeq(text, 1, Len(text) - 1)]

-----------------------------------------------------------------------------
(* Replies                                                                 *)

Embed(title, color, desc, arg) == [title |-> title, color |-> color, desc |-> desc, arg |-> arg]

NoEmbed == Embed("", 0, "", <<>>)

DeniedNotAuthorized ==
    Embed("Access Denied", EMBED_COLOR_ERROR, "You are not authorized to use this command.", <<>>)

DeniedNotOwner ==
    Embed("Access Denied", EMBED_COLOR_ERROR, "Only the bot owner can manage the whitelist.", <<>>)

-----------------------------------------------------------------------------
(* Tasks                                                                   *)

TaskIds == DOMAIN task

IdleTask == [pc |-> "idle", cmd |-> "", caller |-> 0, action |-> "", arg |-> None,
             reason |-> "", gate |-> FALSE, calls |-> <<>>, printed |-> "", embed |-> NoEmbed]

\* No handler holds the event loop in the middle of its blocking calls.
LoopFree == \A u \in TaskIds : task[u].pc \notin {"listing", "fetching"}

NoFrame == [ban_keys |-> <<>>, next_cursor |-> "", ban_list_strings |-> <<>>, i |-> 0]

-----------------------------------------------------------------------------
(* Authorization gates                                                     *)

is_bot_owner_or_listed(user) == user = BOT_OWNER_ID \/ In(user, whitelisted_users)

is_bot_owner(user) == user = BOT_OWNER_ID

is_whitelisted_nonempty(user, whitelist) == user = BOT_OWNER_ID \/ Len(whitelist) > 0

is_whitelisted(user, whitelist) == user = BOT_OWNER_ID \/ In(user, whitelist)

-----------------------------------------------------------------------------
(* /whitelist                                                              *)

WhitelistActions == {"add", "remove", "list"}

\* The gate of /whitelist: lets the owner through to the handler, answers
\* everybody else with the denial and ends the invocation.
InvokeWhitelist(t, caller, action, user_id) ==
    /\ LoopFree
    /\ task[t].pc = "idle"
    /\ task' = [task EXCEPT ![t] =
            IF is_bot_owner(caller)
            THEN [IdleTask EXCEPT !.pc = "admitted", !.cmd = "whitelist", !.caller = caller,
                                  !.action = action, !.arg = user_id,
                                  !.gate = (caller = BOT_OWNER_ID)]
            ELSE [IdleTask EXCEPT !.pc = "reply", !.cmd = "whitelist", !.caller = caller,
                                  !.gate = (caller = BOT_OWNER_ID),
                                  !.embed = DeniedNotOwner]]
    /\ UNCHANGED <<whitelisted_users, whitelist_file, store, frame>>

\* The "add" branch without its owner test (lines 182-184 dropped).
whitelist_add_owner_too(list, user_id) ==
    IF user_id = None \/ Len(user_id) = 0 \/ ~isdigit(user_id) \/ int_raises(user_id)
    THEN [list |-> list, saved |-> FALSE,
          embed |-> Embed("Whitelist Management", EMBED_COLOR_ERROR, "Invalid User ID format.", <<>>)]
    ELSE IF ~In(int(user_id), list)
    THEN [list |-> list_append(list, int(user_id)), saved |-> TRUE,
          embed |-> Embed("Whitelist Management", EMBED_COLOR_SUCCESS,
                          "User ID added to the whitelist.", <<int(user_id)>>)]
    ELSE [list |-> list, saved |-> FALSE,
          embed |-> Embed("Whitelist Management", EMBED_COLOR_INFO,
                          "User ID is already in the whitelist.", <<int(user_id)>>)]

\* The "add" branch without its membership test (line 185 always true).
whitelist_add_always(list, user_id) ==
    IF user_id = None \/ Len(user_id) = 0 \/ ~isdigit(user_id) \/ int_raises(user_id)
    THEN [list |-> list, saved |-> FALSE,
          embed |-> Embed("Whitelist Management", EMBED_COLOR_ERROR, "Invalid User ID format.", <<>>)]
    ELSE IF int(user_id) = BOT_OWNER_ID
    THEN [list |-> list, saved |-> FALSE,
          embed |-> Embed("Whitelist Management", EMBED_COLOR_INFO,
                          "The bot owner is always authorized.", <<>>)]
    ELSE [list |-> list_append(list, int(user_id)), saved |-> TRUE,
          embed |-> Embed("Whitelist Management", EMBED_COLOR_SUCCESS,
                          "User ID added to the whitelist.", <<int(user_id)>>)]

\* The "add" branch: [list, saved, embed].
whitelist_add(list, user_id) ==
    IF user_id = None \/ Len(user_id) = 0 \/ ~isdigit(user_id)
    THEN [list |-> list, saved |-> FALSE,
          embed |-> Embed("Whitelist Management", EMBED_COLOR_ERROR,
                          "Invalid or missing User ID for 'add' action.", <<>>)]
    ELSE IF int_raises(user_id)
    THEN [list |-> list, saved |-> FALSE,
          embed |-> Embed("Whitelist Management", EMBED_COLOR_ERROR,
                          "Invalid User ID format.", <<>>)]
    ELSE IF int(user_id) = BOT_OWNER_ID
    THEN [list |-> list, saved |-> FALSE,
          embed |-> Embed("Whitelist Management", EMBED_COLOR_INFO,
                          "The bot owner is always authorized.", <<>>)]
    ELSE IF ~In(int(user_id), list)
    THEN [list |-> list_append(list, int(user_id)), saved |-> TRUE,
          embed |-> Embed("Whitelist Management", EMBED_COLOR_SUCCESS,
                          "User ID added to the whitelist.", <<int(user_id)>>)]
    ELSE [list |-> list, saved |-> FALSE,
          embed |-> Embed("Whitelist Management", EMBED_COLOR_INFO,
                          "User ID is already in the whitelist.", <<int(user_id)>>)]

\* The "remove" branch reporting an absent identifier as an error.
whitelist_remove_strict(list, user_id) ==
    IF user_id = None \/ Len(user_id) = 0 \/ ~isdigit(user_id) \/ int_raises(user_id)
    THEN [list |-> list, saved |-> FALSE,
          embed |-> Embed("Whitelist Management", EMBED_COLOR_ERROR, "Invalid User ID format.", <<>>)]
    ELSE IF In(int(user_id), list)
    THEN [list |-> list_remove(list, int(user_id)), saved |-> TRUE,
          embed |-> Embed("Whitelist Management", EMBED_COLOR_SUCCESS,
                          "User ID removed from the whitelist.", <<int(user_id)>>)]
    ELSE [list |-> list, saved |-> FALSE,
          embed |-> Embed("Whitelist Management", EMBED_COLOR_ERROR,
                          "User ID was not found in the whitelist.", <<int(user_id)>>)]

\* The "remove" branch.
whitelist_remove(list, user_id) ==
    IF user_id = None \/ Len(user_id) = 0 \/ ~isdigit(user_id)
    THEN [list |-> list, saved |-> FALSE,
          embed |-> Embed("Whitelist Management", EMBED_COLOR_ERROR,
                          "Invalid or missing User ID for 'remove' action.", <<>>)]
    ELSE IF int_raises(user_id)
    THEN [list |-> list, saved |-> FALSE,
          embed |-> Embed("Whitelist Management", EMBED_COLOR_ERROR,
                          "Invalid User ID format.", <<>>)]
    ELSE IF In(int(user_id), list)
    THEN [list |-> list_remove(list, int(user_id)), saved |-> TRUE,
          embed |-> Embed("Whitelist Management", EMBED_COLOR_SUCCESS,
                          "User ID removed from the whitelist.", <<int(user_id)>>)]
    ELSE [list |-> list, saved |-> FALSE,
          embed |-> Embed("Whitelist Management", EMBED_COLOR_INFO,
                          "User ID was not found in the whitelist.", <<int(user_id)>>)]

\* The "list" branch.
whitelist_list(list) ==
    IF Len(list) = 0
    THEN [list |-> list, saved |-> FALSE,
          embed |-> Embed("Whitelist Management", EMBED_COLOR_INFO,
                          "The whitelist is currently empty.", <<>>)]
    ELSE [list |-> list, saved |-> FALSE,
          embed |-> Embed("Whitelisted User IDs", EMBED_COLOR_INFO, "id_list", list)]

manage_whitelist(list, action, user_id) ==
    CASE action = "add" -> whitelist_add(list, user_id)
      [] action = "remove" -> whitelist_remove(list, user_id)
      [] action = "list" -> whitelist_list(list)

\* The handler body of /whitelist, from its first line to the await of the
\* reply: it changes the list, saves it when it changed, and builds the embed.
ManageWhitelist(t, disk) ==
    /\ LoopFree
    /\ task[t].pc = "admitted"
    /\ task[t].cmd = "whitelist"
    /\ LET r == manage_whitelist(whitelisted_users, task[t].action, task[t].arg)
       IN  /\ whitelisted_users' = r.list
           /\ whitelist_file' = IF r.saved THEN save_whitelist(r.list, whitelist_file, disk)
                                ELSE whitelist_file
           /\ task' = [task EXCEPT ![t].pc = "reply", ![t].embed = r.embed,
                                   ![t].printed = IF r.saved /\ disk # "written"
                                                  THEN "Error saving whitelist" ELSE ""]
    /\ UNCHANGED <<store, frame>>

\* The reply reaches Discord and the invocation is over.
SendReply(t) ==
    /\ LoopFree
    /\ task[t].pc = "reply"
    /\ task' = [task EXCEPT ![t] = IdleTask]
    /\ UNCHANGED <<whitelisted_users, whitelist_file, store, frame>>

\* The process is stopped and started again: every invocation in flight is
\* gone and the whitelist is read back from the file (main.py:62).
Restart ==
    /\ whitelisted_users' = load_whitelist(whitelist_file)
    /\ task' = [u \in TaskIds |-> IdleTask]
    /\ frame' = NoFrame
    /\ UNCHANGED <<whitelist_file, store>>

-----------------------------------------------------------------------------
(* Remote services                                                         *)

INTERNAL_SECRET_KEY == "DEFAULT_CHANGE_THIS_SECRET"

\* One remote call of an invocation, in the order made.
Call(api, arg, status) == [api |-> api, arg |-> arg, status |-> status, keys |-> <<>>, next |-> ""]

\* The display name of a Discord user and the name the directory holds for a
\* Roblox user id.
display_name(user) == <<"u">> \o str(user)

NameOf(id) == <<"n">> \o str(id)

NoRecord == [Reason |-> "", BannedBy |-> <<>>, Username |-> <<>>, Timestamp |-> 0]

EmptyStore == [k \in {} |-> NoRecord]

Stored(key) == key \in DOMAIN store

store_put(st, key, record) == [k \in DOMAIN st \cup {key} |-> IF k = key THEN record ELSE st[k]]

store_delete(st, key) == [k \in DOMAIN st \ {key} |-> st[k]]

\* How a request to a remote service can end: the service answers it (2xx,
\* or 404 for an entry that is not there), refuses it with 403, fails with
\* another status, or the request never arrives (no response at all).
Faults == {"none", "403", "500", "transport"}

\* The body of a 403: a JSON message naming the missing scope and the
\* ListEntries operation, one naming the scope only, another JSON message,
\* or a body that is not JSON.
ForbiddenBodies == {"scope_list", "scope_entry", "json", "text"}

-----------------------------------------------------------------------------
(* Protected commands: the gate                                            *)

LiveCommands == {"kick", "announce", "fly", "unfly", "serverlock", "unlock", "players", "serveruptime"}

StoreCommands == {"banid", "ban", "unban", "banlist"}

ProtectedCommands == {"ping"} \cup LiveCommands \cup StoreCommands

\* The gate of a protected command: on success the handler starts and runs
\* to its first await, the deferred response; on failure the gate answers
\* with the denial and the handler never runs.
InvokeProtected(t, cmd, caller, arg, reason) ==
    /\ LoopFree
    /\ task[t].pc = "idle"
    /\ task' = [task EXCEPT ![t] =
            IF is_whitelisted(caller, whitelisted_users)
            THEN [IdleTask EXCEPT !.pc = "deferred", !.cmd = cmd, !.caller = caller,
                                  !.arg = arg, !.reason = reason,
                                  !.gate = (caller = BOT_OWNER_ID \/ In(caller, whitelisted_users))]
            ELSE [IdleTask EXCEPT !.pc = "reply", !.cmd = cmd, !.caller = caller,
                                  !.gate = (caller = BOT_OWNER_ID \/ In(caller, whitelisted_users)),
                                  !.embed = DeniedNotAuthorized]]
    /\ UNCHANGED <<whitelisted_users, whitelist_file, store, frame>>

\* /ping after the deferred response: no remote call.
Ping(t) ==
    /\ LoopFree
    /\ task[t].pc = "deferred"
    /\ task[t].cmd = "ping"
    /\ task' = [task EXCEPT ![t].pc = "reply",
                            ![t].embed = Embed("Pong!", EMBED_COLOR_INFO, "latency", <<>>)]
    /\ UNCHANGED <<whitelisted_users, whitelist_file, store, frame>>

-----------------------------------------------------------------------------
(* Live commands: one publish to the messaging topic                       *)

Absent == <<"absent">>

create_run_command_payload(caller, command, target, arguments) ==
    [command_type |-> "RUN_COMMAND", discord_user_id |-> str(caller),
     discord_user_name |-> display_name(caller), command |-> command,
     target |-> target, arguments |-> arguments, internal_secret |-> Absent]

info_payload(caller, command_type) ==
    [command_type |-> command_type, discord_user_id |-> str(caller),
     discord_user_name |-> display_name(caller), command |-> Absent,
     target |-> Absent, arguments |-> Absent, internal_secret |-> Absent]

\* The payload each live command builds from its arguments.
live_payload(cmd, caller, player, text) ==
    CASE cmd = "kick" -> create_run_command_payload(caller, "kick", player, text)
      [] cmd = "announce" -> create_run_command_payload(caller, "announce", None, text)
      [] cmd \in {"fly", "unfly"} -> create_run_command_payload(caller, cmd, player, None)
      [] cmd \in {"serverlock", "unlock"} -> create_run_command_payload(caller, cmd, None, None)
      [] cmd = "players" -> info_payload(caller, "GET_PLAYER_LIST")
      [] cmd = "serveruptime" -> info_payload(caller, "GET_SERVER_UPTIME")

\* How the publish can end: accepted, refused with a JSON body, refused with
\* a body that is not JSON, or no response.
PublishOutcomes == {"ok", "http_json", "http_text", "transport"}

\* send_roblox_message without raise_for_status: any response counts as sent.
send_roblox_message_unchecked(payload, outcome) ==
    [published |-> [payload EXCEPT !.internal_secret = INTERNAL_SECRET_KEY],
     success |-> (outcome # "transport"),
     message |-> IF outcome # "transport" THEN "Request sent to Roblox game servers."
                 ELSE "Failed to send command to Roblox"]

\* send_roblox_message: [published, success, message].
send_roblox_message(payload, outcome) ==
    [published |-> [payload EXCEPT !.internal_secret = INTERNAL_SECRET_KEY],
     success |-> (outcome = "ok"),
     message |-> CASE outcome = "ok" -> "Request sent to Roblox game servers."
                   [] outcome = "http_json" -> "Failed to send command to Roblox: Details"
                   [] outcome = "http_text" -> "Failed to send command to Roblox: Response"
                   [] outcome = "transport" -> "Failed to send command to Roblox"]

\* The embed of a live command after its publish.
live_embed(cmd, sent) ==
    IF cmd \in {"players", "serveruptime"}
    THEN IF sent.success
         THEN Embed(IF cmd = "players" THEN "Player List Requested" ELSE "Server Uptime Requested",
                    EMBED_COLOR_SUCCESS,
                    "Request sent. Results will be logged to your 'BotLogs' webhook channel.", <<>>)
         ELSE Embed("Command Failed", EMBED_COLOR_ERROR, sent.message, <<>>)
    ELSE IF sent.success
         THEN Embed("Command Sent", EMBED_COLOR_SUCCESS, sent.message, <<cmd>>)
         ELSE Embed("Command Failed", EMBED_COLOR_ERROR, sent.message, <<cmd>>)

\* A live command after the deferred response: build the payload, publish
\* it once, build the embed.
LiveCommand(t, outcome) ==
    /\ LoopFree
    /\ task[t].pc = "deferred"
    /\ task[t].cmd \in LiveCommands
    /\ LET sent == send_roblox_message(
                       live_payload(task[t].cmd, task[t].caller, task[t].arg, task[t].reason),
                       outcome)
       IN  task' = [task EXCEPT ![t].pc = "reply",
                                ![t].calls = Append(@, Call("publish", sent.published, outcome)),
                                ![t].embed = live_embed(task[t].cmd, sent)]
    /\ UNCHANGED <<whitelisted_users, whitelist_file, store, frame>>

-----------------------------------------------------------------------------
(* Directory lookups                                                       *)

\* What the directory can answer: the user, no user, or a failed request.
LookupOutcomes == {"found", "empty", "error"}

IdFallback(id) == <<"ID: ">> \o str(id)

\* get_username_from_id: the name, or "ID: <id>" when the directory has no
\* such user or the request failed.
get_username_from_id(id, outcome) == IF outcome = "found" THEN NameOf(id) ELSE IdFallback(id)

\* The Roblox user a player name belongs to, in whatever case it is typed:
\* the directory answers with the id and the name as it holds it.
IdOfName(player) == int(Tail(player))

-----------------------------------------------------------------------------
(* Ban records: /banid, /ban, /unban                                       *)

create_api_error_embed(status, requested_perm, body) ==
    IF status = "403"
    THEN Embed("API Key Error (403 Forbidden)", EMBED_COLOR_ERROR, requested_perm, <<body>>)
    ELSE Embed("API Request Failed", EMBED_COLOR_ERROR,
               "An error occurred while contacting the Roblox API.", <<status>>)

InvalidInput == Embed("Invalid Input", EMBED_COLOR_ERROR, "UserId must be a number.", <<>>)

ban_record(reason, caller, username, now) ==
    [Reason |-> reason, BannedBy |-> display_name(caller) \o <<" (Discord)">>,
     Username |-> username, Timestamp |-> now]

\* The entry write shared by /banid and /ban: [store, call, embed].
write_ban(st, key, record, fault, body) ==
    IF fault = "none"
    THEN [store |-> store_put(st, key, record),
          call |-> Call("write", key, "200"),
          embed |-> Embed("User Banned (DataStore)", EMBED_COLOR_SUCCESS, record.Reason,
                          <<record.Username, key, record.BannedBy>>)]
    ELSE [store |-> st,
          call |-> Call("write", key, fault),
          embed |-> create_api_error_embed(fault, "Write", body)]

\* /banid after the deferred response.  A user_id that is not all digits is
\* answered without any remote call; one that str.isdigit() accepts and
\* int() rejects raises ValueError out of the handler.
Banid(t, lookup, fault, body, now) ==
    /\ LoopFree
    /\ task[t].pc = "deferred"
    /\ task[t].cmd = "banid"
    /\ IF ~isdigit(task[t].arg)
       THEN /\ task' = [task EXCEPT ![t].pc = "reply", ![t].embed = InvalidInput]
            /\ store' = store
       ELSE IF int_raises(task[t].arg)
       THEN /\ task' = [task EXCEPT ![t].pc = "raised"]
            /\ store' = store
       ELSE LET username == get_username_from_id(int(task[t].arg), lookup)
                w == write_ban(store, task[t].arg,
                               ban_record(task[t].reason, task[t].caller, username, now),
                               fault, body)
            IN  /\ task' = [task EXCEPT ![t].pc = "reply",
                                        ![t].calls = @ \o <<Call("lookup", str(int(task[t].arg)), lookup), w.call>>,
                                        ![t].embed = w.embed]
                /\ store' = w.store
    /\ UNCHANGED <<whitelisted_users, whitelist_file, frame>>

\* /ban after the deferred response: resolve the player name, then write the
\* record under the id the directory returned.
Ban(t, lookup, fault, body, now) ==
    /\ LoopFree
    /\ task[t].pc = "deferred"
    /\ task[t].cmd = "ban"
    /\ CASE lookup = "empty" ->
              /\ task' = [task EXCEPT ![t].pc = "reply",
                                      ![t].calls = Append(@, Call("lookup", task[t].arg, lookup)),
                                      ![t].embed = Embed("User Not Found", EMBED_COLOR_ERROR,
                                                         "Could not find a Roblox user.", <<task[t].arg>>)]
              /\ store' = store
         [] lookup = "error" ->
              /\ task' = [task EXCEPT ![t].pc = "reply",
                                      ![t].calls = Append(@, Call("lookup", task[t].arg, lookup)),
                                      ![t].embed = Embed("Username Lookup Failed", EMBED_COLOR_ERROR,
                                                         "An error occurred trying to find the user.", <<task[t].arg>>)]
              /\ store' = store
         [] lookup = "found" ->
              LET w == write_ban(store, str(IdOfName(task[t].arg)),
                                 ban_record(task[t].reason, task[t].caller,
                                            NameOf(IdOfName(task[t].arg)), now),
                                 fault, body)
              IN  /\ task' = [task EXCEPT ![t].pc = "reply",
                                          ![t].calls = @ \o <<Call("lookup", task[t].arg, lookup), w.call>>,
                                          ![t].embed = w.embed]
                  /\ store' = w.store
    /\ UNCHANGED <<whitelisted_users, whitelist_file, frame>>

\* The status the store gives a delete or a read it answers.
entry_status(st, key, fault) ==
    IF fault # "none" THEN fault ELSE IF key \in DOMAIN st THEN "200" ELSE "404"

\* The reply of /unban without its special case for 404.
unban_reply_strict(user_id, status, lookup, body) ==
    IF status # "200"
    THEN [raised |-> FALSE, lookup |-> FALSE,
          embed |-> create_api_error_embed(status, "Delete", body)]
    ELSE [raised |-> FALSE, lookup |-> TRUE,
          embed |-> Embed("User Unbanned (DataStore)", EMBED_COLOR_SUCCESS,
                          "Successfully unbanned.",
                          <<get_username_from_id(int(user_id), lookup), user_id>>)]

\* The reply of /unban to the status of its delete: [raised, lookup, embed].
unban_reply(user_id, status, lookup, body) ==
    IF status = "404"
    THEN [raised |-> FALSE, lookup |-> FALSE,
          embed |-> Embed("User Unbanned", EMBED_COLOR_INFO,
                          "User was not found in the ban list.", <<user_id>>)]
    ELSE IF status # "200"
    THEN [raised |-> FALSE, lookup |-> FALSE,
          embed |-> create_api_error_embed(status, "Delete", body)]
    ELSE IF int_raises(user_id)
    THEN [raised |-> TRUE, lookup |-> FALSE, embed |-> NoEmbed]
    ELSE [raised |-> FALSE, lookup |-> TRUE,
          embed |-> Embed("User Unbanned (DataStore)", EMBED_COLOR_SUCCESS,
                          "Successfully unbanned.",
                          <<get_username_from_id(int(user_id), lookup), user_id>>)]

\* /unban after the deferred response: delete the entry under the typed key.
Unban(t, lookup, fault, body) ==
    /\ LoopFree
    /\ task[t].pc = "deferred"
    /\ task[t].cmd = "unban"
    /\ IF ~isdigit(task[t].arg)
       THEN /\ task' = [task EXCEPT ![t].pc = "reply", ![t].embed = InvalidInput]
            /\ store' = store
       ELSE LET status == entry_status(store, task[t].arg, fault)
                r == unban_reply(task[t].arg, status, lookup, body)
            IN  /\ store' = IF status = "200" THEN store_delete(store, task[t].arg) ELSE store
                /\ task' = [task EXCEPT
                       ![t].pc = IF r.raised THEN "raised" ELSE "reply",
                       ![t].calls = @ \o <<Call("delete", task[t].arg, status)>>
                                      \o (IF r.lookup
                                          THEN <<Call("lookup", str(int(task[t].arg)), lookup)>>
                                          ELSE <<>>),
                       ![t].embed = r.embed]
    /\ UNCHANGED <<whitelisted_users, whitelist_file, frame>>

-----------------------------------------------------------------------------
(* The ban list: /banlist and get_datastore_ban_list                       *)

TwoDigits(n) == <<Digits[(n \div 10) + 1], Digits[(n % 10) + 1]>>

\* strftime("%Y-%m-%d %H:%M") of a timestamp within the first hour of the
\* epoch; "???" for a timestamp that is missing or zero.
date_str(timestamp) ==
    IF timestamp = 0 THEN <<"???">> ELSE <<"1970-01-01 00:">> \o TwoDigits((timestamp \div 60) % 60)

\* The lines of the list, as sequences of pieces of text; "bold" and
\* "italic" stand for the Markdown asterisks and "tick" for the backquote.
summary_line(record) ==
    <<"[">> \o date_str(record.Timestamp) \o <<"] bold ">> \o record.Username
          \o <<"bold (By: ">> \o record.BannedBy \o <<") - italic ", record.Reason, "italic">>

not_found_line(key) == <<"[", "ERROR] ", "Data for key ">> \o key \o <<"tick was not found 404.">>

could_not_fetch_line(key) == <<"[", "ERROR] ", "Co", "uld not fetch data for key: ">> \o key \o <<"tick">>

corrupted_line(key) == <<"[", "ERROR] ", "Co", "rrupted data for key: ">> \o key \o <<"tick">>

\* The code point of the first character of a piece of text.
Ord(piece) ==
    CASE piece \in DecimalChars -> 48 + DigitValue(piece)
      [] piece = " (Discord)" -> 32
      [] piece = ") - italic " -> 41
      [] piece \in {"italic", "bold (By: "} -> 42
      [] piece = "1970-01-01 00:" -> 49
      [] piece = "???" -> 63
      [] piece = "Banned via Discord." -> 66
      [] piece = "Co" -> 67
      [] piece = "Data for key " -> 68
      [] piece = "ERROR] " -> 69
      [] piece = "ID: " -> 73
      [] piece = "[" -> 91
      [] piece = "] bold " -> 93
      [] piece \in {"tick", "tick was not found 404."} -> 96
      [] piece = "cheating" -> 99
      [] piece = "n" -> 110
      [] piece = "rrupted data for key: " -> 114
      [] piece \in {"u", "uld not fetch data for key: "} -> 117

\* a <= b as Python compares strings.
RECURSIVE str_le(_, _)
str_le(a, b) ==
    IF Len(a) = 0 THEN TRUE
    ELSE IF Len(b) = 0 THEN FALSE
    ELSE IF a[1] = b[1] THEN str_le(Tail(a), Tail(b))
    ELSE Ord(a[1]) < Ord(b[1])

RECURSIVE insert_sorted(_, _)
insert_sorted(line, sorted) ==
    IF Len(sorted) = 0 THEN <<line>>
    ELSE IF str_le(line, sorted[1]) THEN <<line>> \o sorted
    ELSE <<sorted[1]>> \o insert_sorted(line, Tail(sorted))

\* list.sort() of the lines.
RECURSIVE list_sort(_)
list_sort(lines) ==
    IF Len(lines) = 0 THEN <<>> ELSE insert_sorted(lines[1], list_sort(Tail(lines)))

\* banlist_cmd on a failed listing: the capability named for a 403 is read
\* off the message of the response body.
banlist_error_embed(status, body) ==
    IF status = "403"
    THEN CASE body = "scope_list" -> create_api_error_embed(status, "List Keys", body)
           [] body = "scope_entry" -> create_api_error_embed(status, "Read", body)
           [] body \in {"json", "text"} -> create_api_error_embed(status, "Read / List Keys", body)
    ELSE Embed("Error", EMBED_COLOR_ERROR, "Failed to retrieve ban list", <<status>>)

\* banlist_cmd on a successful listing.  (The split of the lines over embed
\* fields of 1024 characters keeps every line and their order.)
banlist_embed(data) ==
    IF Len(data) = 0
    THEN Embed("Taurus Global Ban List", EMBED_COLOR_INFO, "The DataStore ban list is empty.", <<>>)
    ELSE Embed("Taurus Global Ban List", EMBED_COLOR_INFO, "Found total entries.", data)

\* The locals of get_datastore_ban_list after one answered page request.
list_page(fr, keys, cursor) ==
    [fr EXCEPT !.ban_keys = fr.ban_keys \o keys, !.next_cursor = cursor]

\* The first loop left after its first page.
list_done_at_once(fr) == TRUE

\* The first loop is over when the page carries no continuation cursor.
list_done(fr) == fr.next_cursor = ""

\* One request of the key listing (lines 427-436), the first one right after
\* the deferred response.  A failed request ends the whole command; the last
\* page ends the first loop, and the command when no key was listed.
ListKeys(t, fault, body, keys, cursor) ==
    /\ \A u \in TaskIds \ {t} : task[u].pc \notin {"listing", "fetching"}
    /\ task[t].pc \in {"deferred", "listing"}
    /\ task[t].cmd = "banlist"
    /\ LET fr == IF task[t].pc = "deferred" THEN NoFrame ELSE frame
           asked == [Call("list", fr.next_cursor, IF fault = "none" THEN "200" ELSE fault)
                        EXCEPT !.keys = IF fault = "none" THEN keys ELSE <<>>,
                               !.next = IF fault = "none" THEN cursor ELSE ""]
           pages == Cardinality({c \in 1..Len(task[t].calls) : task[t].calls[c].api = "list"})
           got == list_page(fr, keys, cursor)
       IN  /\ pages < MaxPages
           /\ fault = "none" => /\ Len(got.ban_keys) <= MaxListed
                                /\ pages + 1 = MaxPages => cursor = ""
           /\ IF fault # "none"
              THEN /\ task' = [task EXCEPT ![t].pc = "reply", ![t].calls = Append(@, asked),
                                           ![t].embed = banlist_error_embed(fault, body)]
                   /\ frame' = NoFrame
              ELSE IF ~list_done(got)
              THEN /\ task' = [task EXCEPT ![t].pc = "listing", ![t].calls = Append(@, asked)]
                   /\ frame' = got
              ELSE IF Len(got.ban_keys) = 0
              THEN /\ task' = [task EXCEPT ![t].pc = "reply", ![t].calls = Append(@, asked),
                                           ![t].embed = banlist_embed(<<>>)]
                   /\ frame' = NoFrame
              ELSE /\ task' = [task EXCEPT ![t].pc = "fetching", ![t].calls = Append(@, asked)]
                   /\ frame' = [got EXCEPT !.i = 1]
    /\ UNCHANGED <<whitelisted_users, whitelist_file, store>>

\* How the read of one entry can end: as the store answers it, or with a
\* 200 whose body is not JSON.  Which handler catches the decoding error
\* depends on the requests release: its JSONDecodeError is a
\* RequestException since 2.27 and the json module's before.
FetchFaults == Faults \cup {"corrupt_request_exception", "corrupt_json_error"}

\* The second loop going on after a 403 as after any other failed read.
fetch_entry_no_fail_fast(st, key, status) ==
    CASE status = "404" -> [abort |-> FALSE, line |-> not_found_line(key)]
      [] status \in {"403", "500", "transport", "corrupt_request_exception"} ->
            [abort |-> FALSE, line |-> could_not_fetch_line(key)]
      [] status = "corrupt_json_error" -> [abort |-> FALSE, line |-> corrupted_line(key)]
      [] status = "200" -> [abort |-> FALSE, line |-> summary_line(st[key])]

\* The second loop giving up on a 404 as it does on a 403.
fetch_entry_abort_on_404(st, key, status) ==
    CASE status \in {"403", "404"} -> [abort |-> TRUE, line |-> <<>>]
      [] status \in {"500", "transport", "corrupt_request_exception"} ->
            [abort |-> FALSE, line |-> could_not_fetch_line(key)]
      [] status = "corrupt_json_error" -> [abort |-> FALSE, line |-> corrupted_line(key)]
      [] status = "200" -> [abort |-> FALSE, line |-> summary_line(st[key])]

\* One iteration of the second loop with the status of its read:
\* [abort, line].
fetch_entry(st, key, status) ==
    CASE status = "404" -> [abort |-> FALSE, line |-> not_found_line(key)]
      [] status = "403" -> [abort |-> TRUE, line |-> <<>>]
      [] status \in {"500", "transport", "corrupt_request_exception"} ->
            [abort |-> FALSE, line |-> could_not_fetch_line(key)]
      [] status = "corrupt_json_error" -> [abort |-> FALSE, line |-> corrupted_line(key)]
      [] status = "200" -> [abort |-> FALSE, line |-> summary_line(st[key])]

\* One read of the second loop (lines 447-477); after the last key the lines
\* are sorted and the command builds its embed.
FetchEntry(t, fault, body) ==
    /\ task[t].pc = "fetching"
    /\ task[t].cmd = "banlist"
    /\ LET key == frame.ban_keys[frame.i]
           status == IF fault \in Faults THEN entry_status(store, key, fault) ELSE fault
           r == fetch_entry(store, key, status)
           asked == Call("get", key, status)
           lines == Append(frame.ban_list_strings, r.line)
       IN  IF r.abort
           THEN /\ task' = [task EXCEPT ![t].pc = "reply", ![t].calls = Append(@, asked),
                                        ![t].embed = banlist_error_embed(status, body)]
                /\ frame' = NoFrame
           ELSE IF frame.i < Len(frame.ban_keys)
           THEN /\ task' = [task EXCEPT ![t].calls = Append(@, asked)]
                /\ frame' = [frame EXCEPT !.ban_list_strings = lines, !.i = @ + 1]
           ELSE /\ task' = [task EXCEPT ![t].pc = "reply", ![t].calls = Append(@, asked),
                                        ![t].embed = banlist_embed(list_sort(lines))]
                /\ frame' = NoFrame
    /\ UNCHANGED <<whitelisted_users, whitelist_file, store>>

\* An exception left the handler: the command tree logs it, nothing is sent
\* to the caller, and the invocation is over.
LogError(t) ==
    /\ LoopFree
    /\ task[t].pc = "raised"
    /\ task' = [task EXCEPT ![t] = IdleTask]
    /\ UNCHANGED <<whitelisted_users, whitelist_file, store, frame>>

-----------------------------------------------------------------------------
(* Inputs                                                                  *)

\* What a caller can type as user_id: nothing, a word, a superscript digit,
\* the decimal form of an id, and a decimal form with a leading zero.
UserIdInputs ==
    {None, <<"x">>, <<"sup2">>} \cup {str(n) : n \in UserIds} \cup {<<"0">> \o str(MaxUserId)}

\* The lists the program itself can have written to the file: no owner, no
\* identifier twice.
RECURSIVE ListsOver(_)
ListsOver(ids) ==
    {<<>>} \cup UNION {{<<n>> \o l : l \in ListsOver(ids \ {n})} : n \in ids}

WrittenFiles ==
    {NoFile} \cup {save_whitelist(l, NoFile, d) : l \in ListsOver(UserIds \ {BOT_OWNER_ID}),
                                                  d \in DiskOutcomes}

-----------------------------------------------------------------------------
(* Specification of whitelist management: two concurrent invocations of    *)
(* /whitelist on a disk that takes every write                             *)

Init ==
    /\ whitelist_file \in WrittenFiles
    /\ whitelisted_users = load_whitelist(whitelist_file)
    /\ task = [u \in {1, 2} |-> IdleTask]
    /\ store = EmptyStore
    /\ frame = NoFrame

Next ==
    \/ \E t \in TaskIds, caller \in UserIds, action \in {"add", "remove"}, user_id \in UserIdInputs :
          InvokeWhitelist(t, caller, action, user_id)
    \/ \E t \in TaskIds, caller \in UserIds : InvokeWhitelist(t, caller, "list", None)
    \/ \E t \in TaskIds : ManageWhitelist(t, "written")
    \/ \E t \in TaskIds : SendReply(t)

Spec == Init /\ [][Next]_vars

-----------------------------------------------------------------------------
(* Specification of persistence: one invocation at a time on a disk that   *)
(* can fail, and restarts of the process                                   *)

InitPersist ==
    /\ whitelist_file = NoFile
    /\ whitelisted_users = load_whitelist(whitelist_file)
    /\ task = [u \in {1} |-> IdleTask]
    /\ store = EmptyStore
    /\ frame = NoFrame

NextPersist ==
    \/ \E t \in TaskIds, caller \in UserIds, action \in {"add", "remove"}, user_id \in UserIdInputs :
          InvokeWhitelist(t, caller, action, user_id)
    \/ \E t \in TaskIds, disk \in DiskOutcomes : ManageWhitelist(t, disk)
    \/ \E t \in TaskIds : SendReply(t)
    \/ Restart

SpecPersist == InitPersist /\ [][NextPersist]_vars

-----------------------------------------------------------------------------
(* Inputs of the protected commands                                        *)

RobloxIds == 1..MaxRobloxId

KeyStrings == {str(k) : k \in RobloxIds}

\* What a caller can type as the user_id of /banid and /unban.
KeyInputs == {<<"x">>, <<"sup2">>} \cup KeyStrings \cup {<<"0">> \o str(MaxRobloxId)}

PlayerNames == {NameOf(k) : k \in RobloxIds}

Reasons == {"Banned via Discord.", "cheating"}

\* What a 403 can carry as its body; the body of any other answer is not read
\* beyond its status.
BodiesOf(fault) == IF fault = "403" THEN ForbiddenBodies ELSE {"json"}

Cursors == {"c1", "c2"}

RECURSIVE SeqsUpTo(_, _)
SeqsUpTo(S, n) ==
    IF n = 0 THEN {<<>>} ELSE SeqsUpTo(S, n - 1) \cup {Append(q, x) : q \in SeqsUpTo(S, n - 1), x \in S}

\* The keys the listing names, and what one page of it can carry.
ListedKeys == {str(1), str(2)}

PageKeys == SeqsUpTo(ListedKeys, MaxListed)

-----------------------------------------------------------------------------
(* Specification of the gate: a protected command next to the owner's      *)
(* changes of the whitelist                                                *)

InitGate ==
    /\ whitelist_file \in {save_whitelist(l, NoFile, "written") : l \in ListsOver(UserIds \ {BOT_OWNER_ID})}
    /\ whitelisted_users = load_whitelist(whitelist_file)
    /\ task = [u \in {1, 2} |-> IdleTask]
    /\ store = EmptyStore
    /\ frame = NoFrame

NextGate ==
    \/ \E caller \in UserIds, action \in {"add", "remove"}, n \in UserIds \ {BOT_OWNER_ID} :
          InvokeWhitelist(2, caller, action, str(n))
    \/ ManageWhitelist(2, "written")
    \/ \E cmd \in {"ping", "serverlock", "unlock", "players", "serveruptime", "banlist"}, caller \in UserIds :
          InvokeProtected(1, cmd, caller, None, "")
    \/ \E cmd \in {"kick", "announce", "fly", "unfly"}, caller \in UserIds :
          InvokeProtected(1, cmd, caller, NameOf(1), "")
    \/ \E cmd \in {"banid", "unban"}, caller \in UserIds, user_id \in {<<"x">>, str(1)} :
          InvokeProtected(1, cmd, caller, user_id, "Banned via Discord.")
    \/ \E caller \in UserIds : InvokeProtected(1, "ban", caller, NameOf(1), "Banned via Discord.")
    \/ Ping(1)
    \/ \E outcome \in {"ok", "transport"} : LiveCommand(1, outcome)
    \/ \E fault \in {"none", "500"} : Banid(1, "found", fault, "json", 1)
    \/ \E lookup \in {"found", "empty"} : Ban(1, lookup, "none", "json", 1)
    \/ \E fault \in {"none", "500"} : Unban(1, "found", fault, "json")
    \/ \E fault \in {"none", "500"}, keys \in {<<>>, <<str(1)>>} : ListKeys(1, fault, "json", keys, "")
    \/ \E fault \in {"none", "403"} : FetchEntry(1, fault, "json")
    \/ \E t \in TaskIds : SendReply(t)

SpecGate == InitGate /\ [][NextGate]_vars

-----------------------------------------------------------------------------
(* Specification of the ban records: /banid, /ban and /unban against the   *)
(* store and the directory                                                 *)

InitStore ==
    /\ whitelist_file = NoFile
    /\ whitelisted_users = load_whitelist(whitelist_file)
    /\ task = [u \in {1} |-> IdleTask]
    /\ store = EmptyStore
    /\ frame = NoFrame

NextStore ==
    \/ \E t \in TaskIds, cmd \in {"banid", "unban"}, caller \in UserIds, user_id \in KeyInputs, reason \in Reasons :
          InvokeProtected(t, cmd, caller, user_id, IF cmd = "banid" THEN reason ELSE "")
    \/ \E t \in TaskIds, caller \in UserIds, player \in PlayerNames, reason \in Reasons :
          InvokeProtected(t, "ban", caller, player, reason)
    \/ \E t \in TaskIds, lookup \in LookupOutcomes, fault \in Faults : \E body \in BodiesOf(fault) :
          Banid(t, lookup, fault, body, 1)
    \/ \E t \in TaskIds, lookup \in LookupOutcomes, fault \in Faults : \E body \in BodiesOf(fault) :
          Ban(t, lookup, fault, body, 1)
    \/ \E t \in TaskIds, lookup \in LookupOutcomes, fault \in Faults : \E body \in BodiesOf(fault) :
          Unban(t, lookup, fault, body)
    \/ \E t \in TaskIds : LogError(t)
    \/ \E t \in TaskIds : SendReply(t)

SpecStore == InitStore /\ [][NextStore]_vars

-----------------------------------------------------------------------------
(* Specification of the ban list: /banlist against a store that holds the  *)
(* records of earlier bans and a listing that may be out of date           *)

\* The stores a run of /banid by the owner leaves behind.
BannedStores ==
    {[k \in K |-> ban_record("Banned via Discord.", BOT_OWNER_ID,
                             get_username_from_id(int(k), IF int(k) = 1 THEN "found" ELSE "empty"), 1)]
        : K \in {{str(1)}, ListedKeys}}

InitList ==
    /\ whitelist_file = NoFile
    /\ whitelisted_users = load_whitelist(whitelist_file)
    /\ task = [u \in {1} |-> IdleTask]
    /\ store \in BannedStores
    /\ frame = NoFrame

NextList ==
    \/ \E t \in TaskIds, caller \in UserIds : InvokeProtected(t, "banlist", caller, None, "")
    \/ \E t \in TaskIds, fault \in Faults, keys \in PageKeys, cursor \in Cursors \cup {""} :
          \E body \in BodiesOf(fault) : ListKeys(t, fault, body, keys, cursor)
    \/ \E t \in TaskIds, fault \in FetchFaults : \E body \in BodiesOf(fault) : FetchEntry(t, fault, body)
    \/ \E t \in TaskIds : SendReply(t)

SpecList == InitList /\ [][NextList]_vars

-----------------------------------------------------------------------------
(* Specification of bans of one player: /banid, /ban and /unban by the     *)
(* owner and a whitelisted moderator, on the player's id as /ban writes    *)
(* it and as a caller can also type it                                     *)

\* The player: id 2, typed as "2" or "02" to /banid and /unban, and by name
\* in either case to /ban.  Id 1 is another player.
BanKeyInputs == {str(1), str(2), <<"0">> \o str(2), <<"sup2">>}

BanPlayerNames == {NameOf(2), <<"N">> \o str(2)}

InitBan ==
    /\ whitelist_file = save_whitelist(<<2>>, NoFile, "written")
    /\ whitelisted_users = load_whitelist(whitelist_file)
    /\ task = [u \in {1} |-> IdleTask]
    /\ store = EmptyStore
    /\ frame = NoFrame

NextBan ==
    \/ \E t \in TaskIds, caller \in UserIds, user_id \in BanKeyInputs, reason \in Reasons :
          InvokeProtected(t, "banid", caller, user_id, reason)
    \/ \E t \in TaskIds, caller \in UserIds, user_id \in BanKeyInputs :
          InvokeProtected(t, "unban", caller, user_id, "")
    \/ \E t \in TaskIds, caller \in UserIds, player \in BanPlayerNames, reason \in Reasons :
          InvokeProtected(t, "ban", caller, player, reason)
    \/ \E t \in TaskIds, lookup \in LookupOutcomes, fault \in {"none", "500"} :
          Banid(t, lookup, fault, "json", 1)
    \/ \E t \in TaskIds, lookup \in LookupOutcomes, fault \in {"none", "500"} :
          Ban(t, lookup, fault, "json", 1)
    \/ \E t \in TaskIds, lookup \in LookupOutcomes, fault \in {"none", "500"} :
          Unban(t, lookup, fault, "json")
    \/ \E t \in TaskIds : LogError(t)
    \/ \E t \in TaskIds : SendReply(t)

SpecBan == InitBan /\ [][NextBan]_vars

-----------------------------------------------------------------------------
(* Specification of the live commands: two concurrent invocations, by the  *)
(* owner, a whitelisted moderator and others, against a topic that can     *)
(* accept, refuse or not answer                                            *)

InitLive ==
    /\ whitelist_file = save_whitelist(<<2>>, NoFile, "written")
    /\ whitelisted_users = load_whitelist(whitelist_file)
    /\ task = [u \in {1, 2} |-> IdleTask]
    /\ store = EmptyStore
    /\ frame = NoFrame

NextLive ==
    \/ \E t \in TaskIds, caller \in UserIds, player \in PlayerNames :
          InvokeProtected(t, "kick", caller, player, "cheating")
    \/ \E t \in TaskIds, caller \in UserIds :
          InvokeProtected(t, "announce", caller, None, "restart soon")
    \/ \E t \in TaskIds, cmd \in {"fly", "unfly"}, caller \in UserIds, player \in PlayerNames :
          InvokeProtected(t, cmd, caller, player, "")
    \/ \E t \in TaskIds, cmd \in {"serverlock", "unlock", "players", "serveruptime"}, caller \in UserIds :
          InvokeProtected(t, cmd, caller, None, "")
    \/ \E t \in TaskIds, outcome \in PublishOutcomes : LiveCommand(t, outcome)
    \/ \E t \in TaskIds : SendReply(t)

SpecLive == InitLive /\ [][NextLive]_vars

-----------------------------------------------------------------------------
(* Properties of whitelist management                                      *)

\* The identifier a well-formed user_id argument names.
Names(arg, n) == arg # None /\ isdigit(arg) /\ ~int_raises(arg) /\ int(arg) = n

\* Task t runs the body of /whitelist in this step.
ManageStep(t) ==
    /\ task[t].pc = "admitted"
    /\ task[t].cmd = "whitelist"
    /\ task'[t].pc = "reply"

\* C2: the whitelist command is owner-only.  The in-memory whitelist and the
\* whitelist file change only in a step in which the handler body of an
\* add or remove invoked by the owner runs; and an invocation of /whitelist
\* by anybody else, whitelisted or not, is never past the gate: it only
\* ever holds the "only the bot owner" denial as its reply.
C2_OwnerOnlyWhitelist ==
    /\ [][(whitelisted_users' # whitelisted_users \/ whitelist_file' # whitelist_file)
            => \E t \in TaskIds : /\ ManageStep(t)
                                  /\ task[t].caller = BOT_OWNER_ID
                                  /\ task[t].action \in {"add", "remove"}]_vars
    /\ [](\A t \in TaskIds :
            (task[t].cmd = "whitelist" /\ task[t].caller # BOT_OWNER_ID)
                => (task[t].pc = "reply" /\ task[t].embed = DeniedNotOwner))

\* A whitelisted caller who is not the owner has been denied /whitelist,
\* after the owner's own invocation changed the list.
C2_Witness ==
    \E t, u \in TaskIds :
        /\ task[t].cmd = "whitelist" /\ task[t].caller # BOT_OWNER_ID
        /\ In(task[t].caller, whitelisted_users)
        /\ task[t].pc = "reply" /\ task[t].embed = DeniedNotOwner
        /\ task[u].cmd = "whitelist" /\ task[u].caller = BOT_OWNER_ID
        /\ task[u].pc = "reply" /\ task[u].embed.color = EMBED_COLOR_SUCCESS

\* C3: the owner identifier is never an element of the whitelist (in memory
\* or as the file would load), add(owner) and remove(owner) leave the list
\* and the file as they are and answer with an informational embed, and the
\* owner passes the owner check and the whitelist check whatever the list.
C3_OwnerNeverListed ==
    /\ [](/\ ~In(BOT_OWNER_ID, whitelisted_users)
          /\ ~In(BOT_OWNER_ID, load_whitelist(whitelist_file))
          /\ is_bot_owner(BOT_OWNER_ID)
          /\ is_whitelisted(BOT_OWNER_ID, whitelisted_users))
    /\ [][\A t \in TaskIds :
            (ManageStep(t) /\ task[t].action \in {"add", "remove"}
                           /\ Names(task[t].arg, BOT_OWNER_ID))
                => /\ whitelisted_users' = whitelisted_users
                   /\ whitelist_file' = whitelist_file
                   /\ task'[t].embed.color = EMBED_COLOR_INFO]_vars

\* add(owner) and remove(owner) have both been answered, with a whitelist
\* that holds other identifiers.
C3_Witness ==
    \E t, u \in TaskIds :
        /\ task[t].pc = "reply" /\ task[t].action = "add" /\ Names(task[t].arg, BOT_OWNER_ID)
        /\ task[t].embed.desc = "The bot owner is always authorized."
        /\ task[u].pc = "reply" /\ task[u].action = "remove" /\ Names(task[u].arg, BOT_OWNER_ID)
        /\ task[u].embed.desc = "User ID was not found in the whitelist."
        /\ Len(whitelisted_users) > 0

\* C4: no identifier occurs twice in the whitelist, whatever the order in
\* which the concurrent invocations of add and remove take their steps.
C4_NoDuplicates ==
    \A i, j \in 1..Len(whitelisted_users) :
        whitelisted_users[i] = whitelisted_users[j] => i = j

\* Two invocations adding the same identifier were both let through the gate
\* before either ran its body; one added it, the other found it present.
C4_Witness ==
    \E t, u \in TaskIds : \E n \in UserIds :
        /\ task[t].pc = "reply" /\ task[t].action = "add" /\ Names(task[t].arg, n)
        /\ task[t].embed.desc = "User ID added to the whitelist."
        /\ task[u].pc = "reply" /\ task[u].action = "add" /\ Names(task[u].arg, n)
        /\ task[u].embed.desc = "User ID is already in the whitelist."
        /\ Len(whitelisted_users) >= 2

\* C5: add of an identifier that is present, and remove of one that is
\* absent, leave the whitelist (contents and order) and the file unchanged
\* and answer with an informational embed, not an error.
C5_Idempotent ==
    [][\A t \in TaskIds : \A n \in 0..(MaxUserId + 1) :
            (/\ ManageStep(t)
             /\ Names(task[t].arg, n)
             /\ \/ task[t].action = "add" /\ In(n, whitelisted_users)
                \/ task[t].action = "remove" /\ ~In(n, whitelisted_users))
                => /\ whitelisted_users' = whitelisted_users
                   /\ whitelist_file' = whitelist_file
                   /\ task'[t].embed.color = EMBED_COLOR_INFO]_vars

\* A second add of a listed identifier (typed with a leading zero) and a
\* second remove of an unlisted one have both been answered.
C5_Witness ==
    \E t, u \in TaskIds :
        /\ task[t].pc = "reply" /\ task[t].action = "add"
        /\ task[t].arg = <<"0">> \o str(MaxUserId)
        /\ task[t].embed.desc = "User ID is already in the whitelist."
        /\ task[u].pc = "reply" /\ task[u].action = "remove"
        /\ task[u].embed.desc = "User ID was not found in the whitelist."
        /\ task[u].embed.arg # <<BOT_OWNER_ID>>
        /\ Len(whitelisted_users) >= 2

-----------------------------------------------------------------------------
(* Properties of the gate                                                  *)

\* The handler of task t has run some of its body, or made a remote call.
HandlerRan(t) ==
    \/ task[t].pc \in {"deferred", "listing", "fetching", "raised"}
    \/ Len(task[t].calls) > 0
    \/ task[t].pc = "reply" /\ task[t].embed # DeniedNotAuthorized

\* C1: for every protected command and caller, the handler runs and remote
\* calls are made only if the caller was the owner or in the whitelist when
\* the gate was evaluated; otherwise the invocation holds the denial and has
\* made no remote call.  The gate lets a caller through exactly when the
\* caller is the owner or in the list at that moment, and a non-owner
\* identifier is in the list exactly from an add of it to the next remove
\* of it.
C1_GateBeforeHandler ==
    /\ [](\A t \in TaskIds : task[t].cmd \in ProtectedCommands =>
            /\ HandlerRan(t) => task[t].gate
            /\ ~task[t].gate => /\ task[t].pc = "reply"
                                /\ task[t].embed = DeniedNotAuthorized
                                /\ task[t].calls = <<>>)
    /\ [][\A t \in TaskIds :
            (task[t].pc = "idle" /\ task'[t].cmd \in ProtectedCommands)
                => /\ task'[t].gate = (\/ task'[t].caller = BOT_OWNER_ID
                                       \/ In(task'[t].caller, whitelisted_users))
                   /\ task'[t].pc = IF task'[t].gate THEN "deferred" ELSE "reply"]_vars
    /\ [][\A n \in UserIds \ {BOT_OWNER_ID} :
            LET on_n(action) == \E t \in TaskIds : /\ ManageStep(t)
                                                   /\ task[t].action = action
                                                   /\ Names(task[t].arg, n)
            IN  /\ on_n("add") => In(n, whitelisted_users')
                /\ on_n("remove") => ~In(n, whitelisted_users')
                /\ ~on_n("add") /\ ~on_n("remove")
                      => (In(n, whitelisted_users') <=> In(n, whitelisted_users))]_vars

\* A whitelisted caller passed the gate, the owner then removed the caller
\* from the list, and the handler made its remote call all the same; the
\* gate would turn the same caller away now.
C1_Witness ==
    \E t, u \in TaskIds :
        /\ task[t].cmd \in ProtectedCommands /\ task[t].caller # BOT_OWNER_ID
        /\ task[t].gate /\ Len(task[t].calls) > 0 /\ task[t].pc = "reply"
        /\ ~is_whitelisted(task[t].caller, whitelisted_users)
        /\ task[u].cmd = "whitelist" /\ task[u].pc = "reply" /\ task[u].action = "remove"
        /\ task[u].embed = Embed("Whitelist Management", EMBED_COLOR_SUCCESS,
                                 "User ID removed from the whitelist.", <<task[t].caller>>)

-----------------------------------------------------------------------------
(* Properties of persistence                                               *)

\* C6 as stated: once an add or remove has completed, the whitelist file
\* loads as the in-memory whitelist.
C6_FileAlwaysCurrent ==
    \A t \in TaskIds :
        (task[t].pc = "reply" /\ task[t].cmd = "whitelist" /\ task[t].gate
                              /\ task[t].action \in {"add", "remove"})
            => load_whitelist(whitelist_file) = whitelisted_users

\* C6 amended: an add or remove that changed the list and whose save raised
\* no IOError leaves a file that holds exactly the in-memory whitelist and
\* loads as it.
C6_FileCurrentAfterGoodSave ==
    [][\A t \in TaskIds :
            (/\ ManageStep(t)
             /\ task'[t].embed.color = EMBED_COLOR_SUCCESS
             /\ task'[t].printed = "")
                => /\ whitelist_file'.exists
                   /\ whitelist_file'.content = json_dumps(whitelisted_users')
                   /\ load_whitelist(whitelist_file') = whitelisted_users']_vars

\* A change was saved after an earlier save had failed: the list of two is
\* on disk.
C6_Witness ==
    \E t \in TaskIds :
        /\ task[t].pc = "reply" /\ task[t].cmd = "whitelist" /\ task[t].action = "add"
        /\ task[t].embed.color = EMBED_COLOR_SUCCESS /\ task[t].printed = ""
        /\ Len(whitelisted_users) >= 2
        /\ load_whitelist(whitelist_file) = whitelisted_users

-----------------------------------------------------------------------------
(* Properties of /unban                                                    *)

\* Task t runs /unban from its deferred response to its reply in this step.
UnbanStep(t) ==
    /\ task[t].pc = "deferred"
    /\ task[t].cmd = "unban"
    /\ task'[t].pc # "deferred"

NonError(embed) == embed.color \in {EMBED_COLOR_INFO, EMBED_COLOR_SUCCESS}

-----------------------------------------------------------------------------
(* Properties of the ban list                                              *)

CallsOf(t, api) == SelectSeq(task[t].calls, LAMBDA c : c.api = api)

RECURSIVE Concat(_)
Concat(lists) == IF Len(lists) = 0 THEN <<>> ELSE lists[1] \o Concat(Tail(lists))

\* The keys of all pages received, in page order.
ListedBy(t) == Concat([p \in 1..Len(CallsOf(t, "list")) |-> CallsOf(t, "list")[p].keys])

FetchedBy(t) == [g \in 1..Len(CallsOf(t, "get")) |-> CallsOf(t, "get")[g].arg]

IsListEmbed(embed) == embed.title = "Taurus Global Ban List"

\* C8: a 403 on the read of an entry is the last request of the listing: no
\* later key is read, the command replies with the 403 error and with none
\* of the lines gathered for the earlier keys.
C8_FailFastOn403 ==
    \A t \in TaskIds : \A c \in 1..Len(task[t].calls) :
        (task[t].calls[c].api = "get" /\ task[t].calls[c].status = "403")
            => /\ c = Len(task[t].calls)
               /\ task[t].pc = "reply"
               /\ task[t].embed.title = "API Key Error (403 Forbidden)"
               /\ task[t].embed.arg \in {<<b>> : b \in ForbiddenBodies}

\* The first of two listed keys answered 403: the second was never asked
\* for and the reply is the 403 error.
C8_Witness ==
    \E t \in TaskIds :
        /\ task[t].pc = "reply" /\ task[t].cmd = "banlist"
        /\ Len(ListedBy(t)) = 2
        /\ Len(CallsOf(t, "get")) = 1
        /\ CallsOf(t, "get")[1].status = "403"
        /\ task[t].embed.title = "API Key Error (403 Forbidden)"

Count(lines, line) == Cardinality({i \in 1..Len(lines) : lines[i] = line})

\* C9: when every page was received and no read answered 403, the command
\* replies with the list, the list has one line per listed key, every listed
\* key was read, and each key whose read answered 404 has its "was not found"
\* line, once per such read.
C9_NotFoundIsMarked ==
    \A t \in TaskIds :
        (/\ task[t].pc = "reply" /\ task[t].cmd = "banlist" /\ task[t].gate
         /\ \A c \in 1..Len(task[t].calls) : task[t].calls[c].status \notin {"403"}
         /\ \A c \in 1..Len(task[t].calls) :
                task[t].calls[c].api = "list" => task[t].calls[c].status = "200")
            => /\ IsListEmbed(task[t].embed)
               /\ Len(task[t].embed.arg) = Len(ListedBy(t))
               /\ FetchedBy(t) = ListedBy(t)
               /\ \A k \in ListedKeys :
                    Count(task[t].embed.arg, not_found_line(k))
                        = Cardinality({g \in 1..Len(CallsOf(t, "get")) :
                                          /\ CallsOf(t, "get")[g].arg = k
                                          /\ CallsOf(t, "get")[g].status = "404"})

\* The first listed key answered 404 and the second was read all the same:
\* the list holds the marker and the summary.
C9_Witness ==
    \E t \in TaskIds :
        /\ task[t].pc = "reply" /\ IsListEmbed(task[t].embed)
        /\ Len(CallsOf(t, "get")) >= 2
        /\ CallsOf(t, "get")[1].status = "404"
        /\ CallsOf(t, "get")[2].status = "200"
        /\ Count(task[t].embed.arg, not_found_line(CallsOf(t, "get")[1].arg)) = 1
        /\ Len(task[t].embed.arg) = 2

\* C10: the key listing is drained before any entry is read.  The first page
\* is asked for without a cursor and every later page with the cursor the
\* page before it returned; a page that returns a cursor is followed by
\* another page request before anything else; no entry is read before a
\* page came without a cursor, and the entries read are the keys of all
\* pages in page order (all of them once the list is replied); a failed page
\* request is the last request and the command replies with an error.
C10_ListingDrainedFirst ==
    \A t \in TaskIds : task[t].cmd = "banlist" =>
        LET pages == CallsOf(t, "list")
            calls == task[t].calls
        IN  /\ \A c \in 1..Len(calls) : calls[c].api = "list" => c <= Len(pages)
            /\ \A p \in 1..Len(pages) :
                  /\ pages[p].arg = IF p = 1 THEN "" ELSE pages[p - 1].next
                  /\ p < Len(pages) => (pages[p].status = "200" /\ pages[p].next # "")
            /\ Len(pages) > 0 =>
                  LET last == pages[Len(pages)]
                  IN  /\ (last.status = "200" /\ last.next # "") =>
                            (task[t].pc = "listing" /\ Len(calls) = Len(pages))
                      /\ last.status # "200" =>
                            /\ Len(calls) = Len(pages)
                            /\ task[t].pc = "reply"
                            /\ ~IsListEmbed(task[t].embed)
                      /\ Len(calls) > Len(pages) => (last.status = "200" /\ last.next = "")
            /\ \A g \in 1..Len(FetchedBy(t)) :
                  g <= Len(ListedBy(t)) /\ FetchedBy(t)[g] = ListedBy(t)[g]
            /\ (task[t].pc = "reply" /\ IsListEmbed(task[t].embed))
                  => FetchedBy(t) = ListedBy(t)

\* Two pages, the first with a cursor, each with a key: both keys were read,
\* in page order, after the second page.
C10_Witness ==
    \E t \in TaskIds :
        /\ task[t].pc = "reply" /\ IsListEmbed(task[t].embed)
        /\ Len(CallsOf(t, "list")) = 2
        /\ CallsOf(t, "list")[1].next = "c2"
        /\ CallsOf(t, "list")[2].arg = "c2"
        /\ CallsOf(t, "list")[1].keys = <<str(2)>>
        /\ CallsOf(t, "list")[2].keys = <<str(1)>>
        /\ FetchedBy(t) = <<str(2), str(1)>>

-----------------------------------------------------------------------------
(* Properties of the ban records                                           *)

\* Task t runs /banid or /ban from its deferred response to its end in this
\* step.
BanStep(t) ==
    /\ task[t].pc = "deferred"
    /\ task[t].cmd \in {"banid", "ban"}
    /\ task'[t].pc # "deferred"

\* The player a /banid, /ban or /unban invocation is about.
PlayerOf(t) == IF task[t].cmd = "ban" THEN IdOfName(task[t].arg) ELSE int(task[t].arg)

Banned(embed) == embed.title = "User Banned (DataStore)"

\* C11 as stated: a ban that reports success leaves, under the key of the
\* player's id, a record with the reason and the actor of that call and the
\* name resolved for the player, and touches no other key; a ban whose write
\* fails leaves the store as it was; an unban that reports a non-error
\* outcome leaves no record under the key of the player's id; nothing else
\* changes the store.  Hence the record under an id is that of the most
\* recent ban of it, or none after an unban.
C11_LatestBanUnderId ==
    [][/\ \A t \in TaskIds :
            /\ (BanStep(t) /\ Banned(task'[t].embed)) =>
                  LET id == str(PlayerOf(t))
                  IN  /\ id \in DOMAIN store'
                      /\ store'[id].Reason = task[t].reason
                      /\ store'[id].BannedBy = display_name(task[t].caller) \o <<" (Discord)">>
                      /\ store'[id].Username \in {NameOf(PlayerOf(t)), IdFallback(PlayerOf(t))}
                      /\ \A k \in (DOMAIN store \cup DOMAIN store') \ {id} :
                            k \in DOMAIN store /\ k \in DOMAIN store' /\ store'[k] = store[k]
            /\ (BanStep(t) /\ ~Banned(task'[t].embed)) => store' = store
            /\ (UnbanStep(t) /\ task'[t].pc = "reply" /\ NonError(task'[t].embed)
                             /\ ~int_raises(task[t].arg)) =>
                  str(PlayerOf(t)) \notin DOMAIN store'
       /\ (\A t \in TaskIds : ~BanStep(t) /\ ~UnbanStep(t)) => store' = store]_vars

-----------------------------------------------------------------------------
(* Properties of the live commands                                         *)

\* C12: an admitted invocation of a live command has made no publish before
\* its handler ran and exactly one when it replies, and never more.  The one
\* publish carries the payload built from the invocation with the shared
\* secret in it; an accepted publish gives the success embed, a refused or
\* unanswered one the failure embed with the single failure text; and from
\* the reply on the invocation makes no further call.
C12_PublishOnce ==
    /\ [](\A t \in TaskIds : (task[t].cmd \in LiveCommands /\ task[t].gate) =>
            /\ Len(task[t].calls) <= 1
            /\ task[t].pc = "deferred" => task[t].calls = <<>>
            /\ task[t].pc = "reply" =>
                  /\ Len(task[t].calls) = 1
                  /\ task[t].calls[1].api = "publish"
                  /\ task[t].calls[1].arg.internal_secret = INTERNAL_SECRET_KEY
                  /\ task[t].calls[1].arg =
                        [live_payload(task[t].cmd, task[t].caller, task[t].arg, task[t].reason)
                            EXCEPT !.internal_secret = INTERNAL_SECRET_KEY]
                  /\ task[t].calls[1].status = "ok" =>
                        task[t].embed.color = EMBED_COLOR_SUCCESS
                  /\ task[t].calls[1].status # "ok" =>
                        /\ task[t].embed.color = EMBED_COLOR_ERROR
                        /\ task[t].embed.title = "Command Failed"
                        /\ task[t].embed.desc \in {"Failed to send command to Roblox: Details",
                                                   "Failed to send command to Roblox: Response",
                                                   "Failed to send command to Roblox"})
    /\ [][\A t \in TaskIds : (task[t].cmd \in LiveCommands /\ task[t].pc = "reply")
                => (task'[t] = task[t] \/ task'[t] = IdleTask)]_vars

\* A kick was refused by the topic with a body that is not JSON: one publish
\* with the secret, the failure embed, and the other invocation's publish
\* accepted.
C12_Witness ==
    \E t, u \in TaskIds :
        /\ t # u
        /\ task[t].cmd = "kick" /\ task[t].pc = "reply" /\ task[t].caller # BOT_OWNER_ID
        /\ Len(task[t].calls) = 1 /\ task[t].calls[1].status = "http_text"
        /\ task[t].calls[1].arg.internal_secret = INTERNAL_SECRET_KEY
        /\ task[t].embed.color = EMBED_COLOR_ERROR
        /\ task[u].cmd \in LiveCommands /\ task[u].pc = "reply"
        /\ Len(task[u].calls) = 1 /\ task[u].calls[1].status = "ok"
        /\ task[u].embed.color = EMBED_COLOR_SUCCESS

-----------------------------------------------------------------------------
(* Properties of error handling                                            *)

\* The invocation of task t is over in this step.
Ends(t) == task[t].pc # "idle" /\ task'[t] = IdleTask

\* C13 as stated: no exception leaves the handler of an admitted invocation,
\* whatever its remote calls answer, and an admitted invocation is over only
\* after its handler has built its reply and the reply has been sent; the
\* process then takes the next invocation.
C13_EveryInvocationReplies ==
    /\ [](\A t \in TaskIds : task[t].pc # "raised")
    /\ [][\A t \in TaskIds :
            (task[t].cmd \in ProtectedCommands /\ task[t].gate /\ Ends(t))
                => (task[t].pc = "reply" /\ task[t].embed # NoEmbed)]_vars

\* The capability each request to the store needs.
Capability(api) ==
    CASE api = "write" -> "Write"
      [] api = "delete" -> "Delete"
      [] api = "list" -> "List Keys"
      [] api = "get" -> "Read"

IsForbiddenEmbed(embed) == embed.title = "API Key Error (403 Forbidden)"

\* C14 as stated: a command that replies after a request to the store was
\* answered 403 replies with the capability-missing embed naming the
\* capability of that request: Write for the write of /banid and /ban,
\* Delete for /unban, List Keys for a page of the key listing and Read for
\* the read of an entry; and the capability-missing embed is the reply only
\* when the last request to the store was answered 403.
C14_ForbiddenNamesOperation ==
    \A t \in TaskIds :
        (task[t].pc = "reply" /\ task[t].cmd \in StoreCommands /\ task[t].gate) =>
            LET calls == SelectSeq(task[t].calls,
                                   LAMBDA c : c.api \in {"write", "delete", "list", "get"})
                last == calls[Len(calls)]
            IN  /\ (Len(calls) > 0 /\ last.status = "403") =>
                      /\ IsForbiddenEmbed(task[t].embed)
                      /\ task[t].embed.desc = Capability(last.api)
                /\ IsForbiddenEmbed(task[t].embed) =>
                      (Len(calls) > 0 /\ last.status = "403")

====
